---- MODULE Spec2Model ----
(***************************************************************************)
(* A model of node-ejson (src/ejson.js): the EJ[...] token parser, the box *)
(* codec around nacl.box / nacl.box.open, the recursive document walker    *)
(* processObjectFields and the asynchronous entry point processEjson.      *)
(*                                                                         *)
(* JavaScript strings are TLA+ strings, read character by character, so    *)
(* that startsWith, slice and the token regular expression are computed on *)
(* the characters.  JSON values are tagged records; an object is the       *)
(* sequence of its own properties in JavaScript property order.            *)
(***************************************************************************)
EXTENDS Integers, Sequences, FiniteSets, TLC

(***************************************************************************)
(* Bounds of the model.                                                    *)
(***************************************************************************)
MaxFields == 2      \* fields of the innermost mapping of a document
MaxDepth == 1       \* mappings or arrays wrapped around it

(***************************************************************************)
(* Program constants: the field widths of the token regular expression.    *)
(***************************************************************************)
PubKeyChars == 44
NonceChars == 32

(***************************************************************************)
(* Characters and strings.                                                 *)
(***************************************************************************)
Digits == {"0", "1", "2", "3", "4", "5", "6", "7", "8", "9"}

UpperCase ==
  {"A", "B", "C", "D", "E", "F", "G", "H", "I", "J", "K", "L", "M",
   "N", "O", "P", "Q", "R", "S", "T", "U", "V", "W", "X", "Y", "Z"}

LowerCase ==
  {"a", "b", "c", "d", "e", "f", "g", "h", "i", "j", "k", "l", "m",
   "n", "o", "p", "q", "r", "s", "t", "u", "v", "w", "x", "y", "z"}

\* the character class [A-Za-z0-9+=/] of the token regular expression
Base64Class == UpperCase \cup LowerCase \cup Digits \cup {"+", "=", "/"}

\* the characters the regular expression's "." does not match
LineTerminators == {"\n", "\r"}

\* the i-th character of s
Char(s, i) == SubSeq(s, i, i)

RECURSIVE Rep(_, _)
\* n copies of the character c
Rep(c, n) == IF n <= 0 THEN "" ELSE c \o Rep(c, n - 1)

\* String.prototype.startsWith
startsWith(s, prefix) ==
  /\ Len(s) >= Len(prefix)
  /\ SubSeq(s, 1, Len(prefix)) = prefix

\* String.prototype.slice(1)
slice1(s) == IF Len(s) = 0 THEN "" ELSE SubSeq(s, 2, Len(s))

EJ == "EJ["

(***************************************************************************)
(* parseEncryptedValue: the regular expression                             *)
(*   /^EJ\[(\d):([A-Za-z0-9+=/]{44}):([A-Za-z0-9+=/]{32}):(.+)]$/          *)
(* Every group but the last has a fixed width, so a match fixes the        *)
(* position of every delimiter; the greedy last group runs to the final    *)
(* character, which must be "]".                                           *)
(***************************************************************************)
PubFrom == 6
PubTo == PubFrom + PubKeyChars - 1
NonceFrom == PubTo + 2
NonceTo == NonceFrom + NonceChars - 1
BoxFrom == NonceTo + 2

\* the expression, were its third group ([^:]{32}) rather than a class of base64
ejsonRegex_anyNonce(value) ==
  /\ Len(value) >= BoxFrom + 1
  /\ startsWith(value, EJ)
  /\ Char(value, 4) \in Digits
  /\ Char(value, 5) = ":"
  /\ \A i \in PubFrom..PubTo : Char(value, i) \in Base64Class
  /\ Char(value, PubTo + 1) = ":"
  /\ \A i \in NonceFrom..NonceTo : Char(value, i) # ":"
  /\ Char(value, NonceTo + 1) = ":"
  /\ \A i \in BoxFrom..(Len(value) - 1) : Char(value, i) \notin LineTerminators
  /\ Char(value, Len(value)) = "]"

ejsonRegex(value) ==
  /\ Len(value) >= BoxFrom + 1
  /\ startsWith(value, EJ)
  /\ Char(value, 4) \in Digits
  /\ Char(value, 5) = ":"
  /\ \A i \in PubFrom..PubTo : Char(value, i) \in Base64Class
  /\ Char(value, PubTo + 1) = ":"
  /\ \A i \in NonceFrom..NonceTo : Char(value, i) \in Base64Class
  /\ Char(value, NonceTo + 1) = ":"
  /\ \A i \in BoxFrom..(Len(value) - 1) : Char(value, i) \notin LineTerminators
  /\ Char(value, Len(value)) = "]"

\* parseInt of one decimal digit
parseInt(d) ==
  CASE d = "0" -> 0 [] d = "1" -> 1 [] d = "2" -> 2 [] d = "3" -> 3
    [] d = "4" -> 4 [] d = "5" -> 5 [] d = "6" -> 6 [] d = "7" -> 7
    [] d = "8" -> 8 [] d = "9" -> 9

\* the result of a call: a returned value, or a thrown error
Return(v) == [k |-> "return", v |-> v]
Throw(e) == [k |-> "throw", e |-> e]

(***************************************************************************)
(* Errors.                                                                 *)
(***************************************************************************)
NoError == [name |-> "", message |-> ""]
InvalidEJSON(value) ==
  [name |-> "Error",
   message |-> "Invalid EJSON: " \o value]
\* Buffer.from(x) of an x that is neither a string nor a buffer
TypeError ==
  [name |-> "TypeError",
   message |-> "The first argument must be of type string or an instance of Buffer"]
\* the size checks of nacl.box and nacl.box.open
BadSize == [name |-> "Error", message |-> "bad size"]

parseEncryptedValue(value) ==
  IF ~ejsonRegex(value)
  THEN Throw(InvalidEJSON(value))
  ELSE Return([schemaVersion |-> parseInt(Char(value, 4)),
               encrypterPublic |-> SubSeq(value, PubFrom, PubTo),
               nonce |-> SubSeq(value, NonceFrom, NonceTo),
               box |-> SubSeq(value, BoxFrom, Len(value) - 1)])

(***************************************************************************)
(* Buffers.  A buffer is [n |-> its length in bytes, d |-> its content].   *)
(* The content of a buffer decoded from hex or base64 text is the sequence *)
(* of the digits that were decoded; the content of a buffer encoded from   *)
(* UTF-8 text is the sequence of its code points.  A string of JavaScript  *)
(* is a sequence of UTF-16 code units and need not be text: in the strings *)
(* of the model "^" stands for a surrogate without its pair, and "~" for   *)
(* U+FFFD, the replacement character, which UTF-8 encodes in three bytes.  *)
(***************************************************************************)
HexDigits == Digits \cup {"a", "b", "c", "d", "e", "f", "A", "B", "C", "D", "E", "F"}

Base64Digits == Base64Class \ {"="}

RECURSIVE HexPairs(_, _)
\* the number of leading pairs of hex digits of text, from position i
HexPairs(text, i) ==
  IF i + 1 <= Len(text) /\ Char(text, i) \in HexDigits /\ Char(text, i + 1) \in HexDigits
  THEN 1 + HexPairs(text, i + 2)
  ELSE 0

\* Buffer.from(text, 'hex'): decoding stops at the first pair that is not hex
BufferFromHex(text) ==
  LET n == HexPairs(text, 1)
  IN [n |-> n, d |-> SubSeq(text, 1, 2 * n)]

RECURSIVE Base64Data(_, _)
\* the base64 digits of text from position i up to the first "="
Base64Data(text, i) ==
  IF i > Len(text) \/ Char(text, i) = "="
  THEN ""
  ELSE IF Char(text, i) \in Base64Digits
       THEN Char(text, i) \o Base64Data(text, i + 1)
       ELSE Base64Data(text, i + 1)

\* Buffer.from(text, 'base64'): other characters are skipped, "=" ends the data
BufferFromBase64(text) ==
  LET d == Base64Data(text, 1)
  IN [n |-> (6 * Len(d)) \div 8, d |-> d]

\* Buffer.toString('base64'): the digits, padded with "=" to a multiple of four
BufferToBase64(buf) ==
  buf.d \o Rep("=", (4 - (Len(buf.d) % 4)) % 4)

Unpaired == "^"
Replacement == "~"

RECURSIVE Utf8(_)
\* the code points that the UTF-8 encoding of text holds: U+FFFD for every
\* surrogate without its pair
Utf8(text) ==
  IF Len(text) = 0 THEN ""
  ELSE (IF Head(text) = Unpaired THEN Replacement ELSE Char(text, 1)) \o Utf8(Tail(text))

RECURSIVE Utf8Length(_)
\* the number of bytes of that encoding: every other character of the model
\* is one byte
Utf8Length(text) ==
  IF Len(text) = 0 THEN 0
  ELSE (IF Char(text, 1) \in {Unpaired, Replacement} THEN 3 ELSE 1) + Utf8Length(Tail(text))

\* Buffer.from(text, 'utf8')
BufferFromUtf8(text) == [n |-> Utf8Length(text), d |-> Utf8(text)]

\* Buffer.toString('utf8')
BufferToUtf8(buf) == buf.d

(***************************************************************************)
(* nacl.box and nacl.box.open (lib/nacl-fast.js), as an ideal authenticated*)
(* public-key box over a finite table of key pairs, nonces and messages:   *)
(* a box opens exactly under the nonce and the pair of keys that sealed it.*)
(***************************************************************************)
KeyIds == {1, 2, 3}
NonceIds == {1, 2}

HexOfKey == <<"a", "b", "c">>
SecretOfKey == <<"1", "2", "3">>
LetterOfKey == <<"P", "Q", "R">>
LetterOfNonce == <<"n", "m">>

\* the text of a public key as a document names it in _public_key
PublicKeyHex(k) == Rep(HexOfKey[k], 64)
\* the text of the private key a resolver returns
PrivateKeyHex(k) == Rep(SecretOfKey[k], 64)
\* the text of a public key inside a token: 32 bytes in base64
PublicKeyBase64(k) == Rep(LetterOfKey[k], PubKeyChars - 1) \o "="
\* the text of a nonce inside a token: 24 bytes in base64
NonceBase64(n) == Rep(LetterOfNonce[n], NonceChars)

PlainTexts == <<"Hi", "", "EJ[x", "~">>
PlainIds == DOMAIN PlainTexts
DigitOf == <<"1", "2", "3", "4", "5", "6", "7", "8", "9">>

Min(a, b) == IF a <= b THEN a ELSE b
Max(a, b) == IF a <= b THEN b ELSE a

\* the bytes of the box that seals message p under nonce n between keys a and b:
\* a 16-byte authenticator and one byte for each byte of the message
SealedBytes(p, n, a, b) ==
  LET len == 16 + BufferFromUtf8(PlainTexts[p]).n
      digits == (8 * len + 5) \div 6
      head == "B" \o DigitOf[p] \o DigitOf[n] \o DigitOf[Min(a, b)] \o DigitOf[Max(a, b)]
  IN [n |-> len, d |-> head \o Rep("A", digits - Len(head))]

\* the tables of the key pairs, nonces and boxes, as buffers
SecretKeys == [k \in KeyIds |-> BufferFromHex(PrivateKeyHex(k))]
PublicKeys == [k \in KeyIds |-> BufferFromBase64(PublicKeyBase64(k))]
Nonces == [n \in NonceIds |-> BufferFromBase64(NonceBase64(n))]
Sealed == [q \in PlainIds \X NonceIds \X KeyIds \X KeyIds |->
             SealedBytes(q[1], q[2], q[3], q[4])]

\* the key pair a buffer belongs to, 0 for a key outside the table
SecretKeyOf(buf) ==
  IF \E k \in KeyIds : buf = SecretKeys[k]
  THEN CHOOSE k \in KeyIds : buf = SecretKeys[k]
  ELSE 0

PublicKeyOf(buf) ==
  IF \E k \in KeyIds : buf = PublicKeys[k]
  THEN CHOOSE k \in KeyIds : buf = PublicKeys[k]
  ELSE 0

NaclNull == [n |-> -1, d |-> ""]

\* nacl.box.open: throws on a key or nonce of the wrong size, returns null
\* when the box does not authenticate, and the message otherwise
nacl_box_open(msg, nonce, theirPublicKey, mySecretKey) ==
  IF theirPublicKey.n # 32 THEN Throw(BadSize)
  ELSE IF mySecretKey.n # 32 THEN Throw(BadSize)
  ELSE IF nonce.n # 24 THEN Throw(BadSize)
  ELSE LET a == PublicKeyOf(theirPublicKey)
           b == SecretKeyOf(mySecretKey)
           opens(p, n) == /\ a # 0 /\ b # 0
                          /\ msg = Sealed[<<p, n, a, b>>]
                          /\ nonce = Nonces[n]
       IN IF \E p \in PlainIds, n \in NonceIds : opens(p, n)
          THEN LET pn == CHOOSE pn \in PlainIds \X NonceIds : opens(pn[1], pn[2])
               IN Return(BufferFromUtf8(PlainTexts[pn[1]]))
          ELSE Return(NaclNull)

\* nacl.box, on the messages, nonces and keys of the table
nacl_box(msg, nonce, theirPublicKey, mySecretKey) ==
  IF theirPublicKey.n # 32 THEN Throw(BadSize)
  ELSE IF mySecretKey.n # 32 THEN Throw(BadSize)
  ELSE IF nonce.n # 24 THEN Throw(BadSize)
  ELSE LET a == PublicKeyOf(theirPublicKey)
           b == SecretKeyOf(mySecretKey)
           p == CHOOSE p \in PlainIds : msg = BufferFromUtf8(PlainTexts[p])
           n == CHOOSE n \in NonceIds : nonce = Nonces[n]
       IN Return(Sealed[<<p, n, a, b>>])

(***************************************************************************)
(* JavaScript values.                                                      *)
(***************************************************************************)
Str(s) == [t |-> "string", s |-> s]
Num(n) == [t |-> "number", n |-> n]
Bool(b) == [t |-> "boolean", b |-> b]
Null == [t |-> "null"]
Undefined == [t |-> "undefined"]
Fn == [t |-> "function"]
\* an object: its own enumerable properties <<key, value>>, in property order
Obj(props) == [t |-> "object", props |-> props]
Arr(elems) == [t |-> "array", elems |-> elems]

typeof(v) ==
  CASE v.t \in {"null", "object", "array"} -> "object"
    [] OTHER -> v.t

\* ToBoolean
Truthy(v) ==
  CASE v.t = "string" -> Len(v.s) > 0
    [] v.t = "number" -> v.n # 0
    [] v.t = "boolean" -> v.b
    [] v.t \in {"null", "undefined"} -> FALSE
    [] OTHER -> TRUE

(***************************************************************************)
(* encrypt and decrypt.  The private key is whatever the resolver returned:*)
(* Buffer.from throws a TypeError on a value that is not a string, and on  *)
(* the null of a box that does not authenticate.                           *)
(***************************************************************************)
\* encrypt, were it to decode the nonce as hex
encrypt_hexNonce(message, nonce, theirPublicKey, mySecretKey) ==
  IF mySecretKey.t # "string" THEN Throw(TypeError)
  ELSE LET data == nacl_box(BufferFromUtf8(message), BufferFromHex(nonce),
                            BufferFromBase64(theirPublicKey), BufferFromHex(mySecretKey.s))
       IN IF data.k = "throw" THEN data
          ELSE Return(BufferToBase64(data.v))

encrypt(message, nonce, theirPublicKey, mySecretKey) ==
  IF mySecretKey.t # "string" THEN Throw(TypeError)
  ELSE LET msgBuff == BufferFromUtf8(message)
           nonceBuff == BufferFromBase64(nonce)
           theirPubBuff == BufferFromBase64(theirPublicKey)
           privBuff == BufferFromHex(mySecretKey.s)
           data == nacl_box(msgBuff, nonceBuff, theirPubBuff, privBuff)
       IN IF data.k = "throw" THEN data
          ELSE Return(BufferToBase64(data.v))

\* decrypt, were it to return its argument when the box does not authenticate
decrypt_returnsMessage(message, nonce, theirPublicKey, mySecretKey) ==
  IF mySecretKey.t # "string" THEN Throw(TypeError)
  ELSE LET data == nacl_box_open(BufferFromBase64(message), BufferFromBase64(nonce),
                                 BufferFromBase64(theirPublicKey),
                                 BufferFromHex(mySecretKey.s))
       IN IF data.k = "throw" THEN data
          ELSE IF data.v = NaclNull THEN Return(Str(message))
          ELSE Return(Str(BufferToUtf8(data.v)))

decrypt(message, nonce, theirPublicKey, mySecretKey) ==
  IF mySecretKey.t # "string" THEN Throw(TypeError)
  ELSE LET msgBuff == BufferFromBase64(message)
           nonceBuff == BufferFromBase64(nonce)
           theirPubBuff == BufferFromBase64(theirPublicKey)
           privBuff == BufferFromHex(mySecretKey.s)
           data == nacl_box_open(msgBuff, nonceBuff, theirPubBuff, privBuff)
       IN IF data.k = "throw" THEN data
          ELSE IF data.v = NaclNull THEN Throw(TypeError)
          ELSE Return(Str(BufferToUtf8(data.v)))

\* the token that seals message p under nonce n, from sender s to recipient r
Token(p, n, s, r) ==
  EJ \o "1:" \o PublicKeyBase64(s) \o ":" \o NonceBase64(n) \o ":"
     \o BufferToBase64(SealedBytes(p, n, s, r)) \o "]"

(***************************************************************************)
(* Properties of objects and arrays.                                       *)
(***************************************************************************)
\* a canonical array index: an integer-like key, enumerated before the others
IsIndexKey(key) ==
  /\ Len(key) >= 1
  /\ \A i \in 1..Len(key) : Char(key, i) \in Digits
  /\ Len(key) = 1 \/ Char(key, 1) # "0"

RECURSIVE IndexOfKey(_)
IndexOfKey(key) ==
  IF Len(key) = 0 THEN 0
  ELSE 10 * IndexOfKey(SubSeq(key, 1, Len(key) - 1)) + parseInt(Char(key, Len(key)))

RECURSIVE KeyOfIndex(_)
KeyOfIndex(i) ==
  IF i < 10 THEN (<<"0">> \o DigitOf)[i + 1]
  ELSE KeyOfIndex(i \div 10) \o KeyOfIndex(i % 10)

\* names every object inherits from Object.prototype
ObjectPrototype == {"valueOf", "toString", "constructor", "hasOwnProperty"}

\* the own enumerable keys, in the order for...in visits them
OwnKeys(v) ==
  CASE v.t = "object" -> [i \in 1..Len(v.props) |-> v.props[i][1]]
    [] v.t = "array" -> [i \in 1..Len(v.elems) |-> KeyOfIndex(i - 1)]
    [] OTHER -> <<>>

HasOwn(v, key) == \E i \in 1..Len(OwnKeys(v)) : OwnKeys(v)[i] = key

PositionOf(v, key) == CHOOSE i \in 1..Len(OwnKeys(v)) : OwnKeys(v)[i] = key

\* v[key]: an own property, else one inherited from the prototype, else undefined
Get(v, key) ==
  IF HasOwn(v, key)
  THEN IF v.t = "object" THEN v.props[PositionOf(v, key)][2] ELSE v.elems[PositionOf(v, key)]
  ELSE IF v.t \in {"object", "array"} /\ key \in ObjectPrototype THEN Fn
  ELSE Undefined

\* where a new key goes: index keys ascending before all other keys, which
\* keep their insertion order
InsertAt(props, key) ==
  IF IsIndexKey(key)
  THEN Cardinality({i \in 1..Len(props) :
                      IsIndexKey(props[i][1]) /\ IndexOfKey(props[i][1]) < IndexOfKey(key)})
  ELSE Len(props)

\* v[key] = x
Set(v, key, x) ==
  IF HasOwn(v, key)
  THEN IF v.t = "object"
       THEN [v EXCEPT !.props[PositionOf(v, key)] = <<key, x>>]
       ELSE [v EXCEPT !.elems[PositionOf(v, key)] = x]
  ELSE IF v.t = "object"
       THEN LET at == InsertAt(v.props, key)
            IN [v EXCEPT !.props = SubSeq(@, 1, at) \o << <<key, x>> >> \o SubSeq(@, at + 1, Len(@))]
       ELSE v

\* structuredClone: a deep copy, which as a value equals its argument
structuredClone(v) == v

(***************************************************************************)
(* processObjectFields.  The walk works on a clone of its argument; it     *)
(* visits the keys the clone had when the loop began (a key added by the   *)
(* loop is not visited), and stops at the first error thrown.  Its result  *)
(* records the calls it made of parseEncryptedValue and decrypt, in order, *)
(* each with the token it was made for.                                    *)
(***************************************************************************)
Called(op, arg) == [op |-> op, arg |-> arg]

\* the underscore branch: configJson[keyName] = configJson[key] unless truthy
aliasDefault(configJson, key) ==
  LET keyName == slice1(key)
  IN IF ~Truthy(Get(configJson, keyName))
     THEN Set(configJson, keyName, Get(configJson, key))
     ELSE configJson

RECURSIVE processObjectFields(_, _)
RECURSIVE forIn(_, _, _, _)

\* one iteration of the loop body, for key
visitKey(st, key, privateKey) ==
  LET value == Get(st.configJson, key)
  IN IF startsWith(key, "_")
     THEN [st EXCEPT !.configJson = aliasDefault(@, key)]
     ELSE IF typeof(value) = "string" /\ startsWith(value.s, EJ)
     THEN LET parsed == parseEncryptedValue(value.s)
              calls1 == Append(st.calls, Called("parseEncryptedValue", value.s))
          IN IF parsed.k = "throw"
             THEN [st EXCEPT !.calls = calls1, !.ok = FALSE, !.error = parsed.e]
             ELSE LET plain == decrypt(parsed.v.box, parsed.v.nonce,
                                       parsed.v.encrypterPublic, privateKey)
                      calls2 == Append(calls1, Called("decrypt", value.s))
                  IN IF plain.k = "throw"
                     THEN [st EXCEPT !.calls = calls2, !.ok = FALSE, !.error = plain.e]
                     ELSE [st EXCEPT !.calls = calls2,
                                     !.configJson = Set(@, key, plain.v)]
     ELSE IF typeof(value) = "object"
     THEN LET sub == processObjectFields(value, privateKey)
          IN IF ~sub.ok
             THEN [st EXCEPT !.calls = @ \o sub.calls, !.ok = FALSE, !.error = sub.error]
             ELSE [st EXCEPT !.calls = @ \o sub.calls,
                             !.configJson = Set(@, key, sub.configJson)]
     ELSE st

\* the loop, were it to go on to the next key after an error
forIn_keepsGoing(st, keys, i, privateKey) ==
  IF i > Len(keys)
  THEN st
  ELSE forIn(visitKey(st, keys[i], privateKey), keys, i + 1, privateKey)

\* for (const key in configJson), over the keys enumerated when the loop began
forIn(st, keys, i, privateKey) ==
  IF i > Len(keys) \/ ~st.ok
  THEN st
  ELSE forIn(visitKey(st, keys[i], privateKey), keys, i + 1, privateKey)

\* the walk, were it to work on its argument and not on a clone of it
processObjectFields_inPlace(rawConf, privateKey) ==
  LET walk == forIn([ok |-> TRUE, configJson |-> rawConf, rawConf |-> rawConf,
                     calls |-> <<>>, error |-> NoError],
                    OwnKeys(rawConf), 1, privateKey)
  IN [walk EXCEPT !.rawConf = walk.configJson]

\* the result: ok and the processed clone configJson, or not ok and the error;
\* rawConf is the argument as the call leaves it
processObjectFields(rawConf, privateKey) ==
  LET configJson == structuredClone(rawConf)
  IN forIn([ok |-> TRUE, configJson |-> configJson, rawConf |-> rawConf,
            calls |-> <<>>, error |-> NoError],
           OwnKeys(configJson), 1, privateKey)

(***************************************************************************)
(* The key resolver conf.getPrivateKey, supplied by the caller: a lookup   *)
(* in a table of keys (undefined for a key the table lacks), a fixed key   *)
(* (the NODE_EJSON_PRIVATE_KEY of the default resolver), or a failure (the *)
(* default resolver's readFile of a key file that does not exist).         *)
(***************************************************************************)
Resolvers ==
  {[kind |-> "keys", key |-> 0], [kind |-> "fixed", key |-> 1],
   [kind |-> "fixed", key |-> 3], [kind |-> "rejects", key |-> 0]}

ENOENT == [name |-> "Error", message |-> "ENOENT: no such file or directory"]
KeyNotFound == [name |-> "Error", message |-> "Private key not found"]
SyntaxError == [name |-> "SyntaxError", message |-> "Unexpected token in JSON"]

getPrivateKey(resolver, publicKey) ==
  CASE resolver.kind = "keys" ->
         IF \E k \in KeyIds : publicKey = Str(PublicKeyHex(k))
         THEN Return(Str(PrivateKeyHex(CHOOSE k \in KeyIds : publicKey = Str(PublicKeyHex(k)))))
         ELSE Return(Undefined)
    [] resolver.kind = "fixed" -> Return(Str(PrivateKeyHex(resolver.key)))
    [] OTHER -> Throw(KeyNotFound)

(***************************************************************************)
(* The documents and configurations of the model.                          *)
(***************************************************************************)
ValidToken == Token(1, 1, 2, 1)        \* opens under key 1 to "Hi"
EmptyToken == Token(2, 1, 2, 1)        \* opens under key 1 to ""
NestedToken == Token(3, 2, 2, 1)       \* opens under key 1 to "EJ[x"
ForeignToken == Token(1, 1, 2, 3)      \* sealed for key 3: does not open under key 1
MalformedToken == "EJ[1:abc]"          \* begins EJ[ and fails the grammar

Leaves ==
  {Str("v"), Str(""), Num(0), Num(7), Bool(FALSE), Null,
   Str(ValidToken), Str(EmptyToken), Str(NestedToken), Str(ForeignToken), Str(MalformedToken)}

Fields ==
  ({"a"} \X Leaves)
    \cup ({"_a"} \X {Str("u"), Str(""), Str(ValidToken)})
    \cup ({"b"} \X {Str("w"), Str(ValidToken), Str(MalformedToken)})
    \cup {<<"__a", Str("t")>>, <<"_valueOf", Str("v")>>, <<"1", Str(ValidToken)>>}

\* s with x at position at + 1: a property defined in property order
Define(props, key, x) ==
  LET at == InsertAt(props, key)
  IN SubSeq(props, 1, at) \o << <<key, x>> >> \o SubSeq(props, at + 1, Len(props))

RECURSIVE Mappings(_)
\* the property lists of at most n fields, no key twice, in every insertion order
Mappings(n) ==
  IF n = 0 THEN {<<>>}
  ELSE LET less == Mappings(n - 1)
       IN less \cup {Define(m, f[1], f[2]) :
                       <<m, f>> \in {mf \in less \X Fields :
                                       \A i \in 1..Len(mf[1]) : mf[1][i][1] # mf[2][1]}}

\* a value one level further in: under a key of a mapping, as the element of
\* an array under that key, or as the array of its field values under that key
Shapes == {"mapping", "element", "values"}
WrapKeys == {"a", "_a"}

ValuesOf(v) == Arr([i \in 1..Len(v.props) |-> v.props[i][2]])

Wrap(v, key, shape) ==
  Obj(<< <<key, CASE shape = "mapping" -> v
                  [] shape = "element" -> Arr(<<v>>)
                  [] OTHER -> IF v.t = "object" THEN ValuesOf(v) ELSE Arr(<<v>>)>> >>)

RECURSIVE Nested(_)
Nested(depth) ==
  IF depth = 0 THEN {Obj(m) : m \in Mappings(MaxFields)}
  ELSE LET less == Nested(depth - 1)
       IN less \cup {Wrap(v, k, sh) : v \in less, k \in WrapKeys, sh \in Shapes}

\* a document: a tree, with or without the root's _public_key
WithPublicKey(v, k) == Obj(<< <<"_public_key", Str(PublicKeyHex(k))>> >> \o v.props)

Documents == LET trees == Nested(MaxDepth) IN trees \cup {WithPublicKey(v, 1) : v \in trees}

\* the file a configuration without configJson names: absent, not JSON, or a document
Files ==
  {[exists |-> FALSE, json |-> FALSE, value |-> Null],
   [exists |-> TRUE, json |-> FALSE, value |-> Null]}
    \cup {[exists |-> TRUE, json |-> TRUE, value |-> WithPublicKey(Obj(m), 1)] : m \in Mappings(1)}

NoFile == [exists |-> FALSE, json |-> FALSE, value |-> Null]

(***************************************************************************)
(* The state: for each call of processEjson its argument, its position,    *)
(* its local variables, its settled promise and the calls it has made; and *)
(* the caller's configJson objects, which a call holds by reference.       *)
(***************************************************************************)
Calls == {1, 2}

VARIABLES
  heap,        \* heap[r]: the caller's object r
  config,      \* config[c]: the argument of call c
  pc,          \* pc[c]: where call c is
  rawConf,     \* rawConf[c]: the reference (or the parsed file) getConfigJson gave
  privateKey,  \* privateKey[c]: what the resolver gave
  awaited,     \* awaited[c]: what the promise of conf.getPrivateKey settles with
  settled,     \* settled[c]: the value or the error the call's promise settled with
  trace,       \* trace[c]: the calls of getPrivateKey, parseEncryptedValue, decrypt so far
  given,       \* given[c]: the document as it was when call c began
  direct       \* a call of an exported function by itself: its arguments and results

vars == <<heap, config, pc, rawConf, privateKey, awaited, settled, trace, given, direct>>

\* no function is called by itself
NoCall == [fn |-> "", args |-> <<>>, results |-> <<>>]

NoConfig == [configJson |-> 0, file |-> NoFile, getPrivateKey |-> [kind |-> "rejects", key |-> 0]]
Pending == [value |-> Undefined, error |-> NoError]

\* mergeConfigs: the caller's configuration over the defaults
mergeConfigs(c) == config[c]

\* the object a call works on: the caller's, by reference, or the parsed file
Deref(c) == IF rawConf[c].ref # 0 THEN heap[rawConf[c].ref] ELSE rawConf[c].value

\* one call of processEjson, given a caller's object or a file
Inputs ==
  {[doc |-> d, configJson |-> 1, file |-> NoFile, getPrivateKey |-> r] :
     d \in Documents, r \in Resolvers}
    \cup {[doc |-> Null, configJson |-> 0, file |-> f, getPrivateKey |-> r] :
            f \in Files, r \in Resolvers}

Init ==
  \E in \in Inputs :
    /\ heap = [r \in Calls |-> IF r = 1 THEN in.doc ELSE Null]
    /\ config = [c \in Calls |->
                   IF c = 1
                   THEN [configJson |-> in.configJson, file |-> in.file,
                         getPrivateKey |-> in.getPrivateKey]
                   ELSE NoConfig]
    /\ pc = [c \in Calls |-> IF c = 1 THEN "start" ELSE "unused"]
    /\ rawConf = [c \in Calls |-> [ref |-> 0, value |-> Undefined]]
    /\ privateKey = [c \in Calls |-> Undefined]
    /\ awaited = [c \in Calls |-> Return(Undefined)]
    /\ settled = [c \in Calls |-> Pending]
    /\ trace = [c \in Calls |-> <<>>]
    /\ given = [c \in Calls |->
                  IF c # 1 THEN Null
                  ELSE IF in.configJson # 0 THEN in.doc ELSE in.file.value]
    /\ direct = NoCall

\* processEjson up to its first await: getConfigJson either returns
\* config.configJson or starts reading the file
processEjson(c) ==
  /\ pc[c] = "start"
  /\ pc' = [pc EXCEPT ![c] = "getConfigJson"]
  /\ UNCHANGED <<heap, config, rawConf, privateKey, awaited, settled, trace, given, direct>>

\* getConfigJson fails: the file is absent (readFile) or is not JSON (JSON.parse)
getConfigJsonRejected(c) ==
  LET conf == mergeConfigs(c)
  IN /\ pc[c] = "getConfigJson"
     /\ conf.configJson = 0
     /\ ~(conf.file.exists /\ conf.file.json)
     /\ pc' = [pc EXCEPT ![c] = "rejected"]
     /\ settled' = [settled EXCEPT ![c].error = IF conf.file.exists THEN SyntaxError ELSE ENOENT]
     /\ UNCHANGED <<heap, config, rawConf, privateKey, awaited, trace, given, direct>>

\* getConfigJson gives rawConf; processEjson reads rawConf['_public_key'] and
\* calls conf.getPrivateKey with it, up to the second await
getConfigJsonFulfilled(c) ==
  LET conf == mergeConfigs(c)
      got == IF conf.configJson # 0
             THEN [ref |-> conf.configJson, value |-> Undefined]
             ELSE [ref |-> 0, value |-> conf.file.value]
      obj == IF got.ref # 0 THEN heap[got.ref] ELSE got.value
      publicKey == Get(obj, "_public_key")
  IN /\ pc[c] = "getConfigJson"
     /\ conf.configJson # 0 \/ (conf.file.exists /\ conf.file.json)
     /\ rawConf' = [rawConf EXCEPT ![c] = got]
     /\ trace' = [trace EXCEPT ![c] = Append(@, Called("getPrivateKey", publicKey))]
     /\ awaited' = [awaited EXCEPT ![c] = getPrivateKey(conf.getPrivateKey, publicKey)]
     /\ pc' = [pc EXCEPT ![c] = "getPrivateKey"]
     /\ UNCHANGED <<heap, config, privateKey, settled, given, direct>>

\* the resolver fails, were processEjson to go on without a key
getPrivateKeyRejected_goesOn(c) ==
  LET walk == processObjectFields(Deref(c), Undefined)
  IN /\ pc[c] = "getPrivateKey"
     /\ awaited[c].k = "throw"
     /\ trace' = [trace EXCEPT ![c] = @ \o walk.calls]
     /\ IF walk.ok
        THEN /\ pc' = [pc EXCEPT ![c] = "fulfilled"]
             /\ settled' = [settled EXCEPT ![c].value = walk.configJson]
        ELSE /\ pc' = [pc EXCEPT ![c] = "rejected"]
             /\ settled' = [settled EXCEPT ![c].error = walk.error]
     /\ UNCHANGED <<heap, config, rawConf, privateKey, awaited, given, direct>>

\* the resolver fails: processEjson rejects with its error
getPrivateKeyRejected(c) ==
  /\ pc[c] = "getPrivateKey"
  /\ awaited[c].k = "throw"
  /\ pc' = [pc EXCEPT ![c] = "rejected"]
  /\ settled' = [settled EXCEPT ![c].error = awaited[c].e]
  /\ UNCHANGED <<heap, config, rawConf, privateKey, awaited, trace, given, direct>>

\* the resolver gives the private key, were processEjson to keep the first key
\* resolved in a variable of the module and use it for every later call
getPrivateKeyFulfilled_keptKey(c) ==
  LET kept == {o \in Calls \ {c} : privateKey[o] # Undefined}
      key == IF kept = {} THEN awaited[c].v ELSE privateKey[CHOOSE o \in kept : TRUE]
      walk == processObjectFields(Deref(c), key)
  IN /\ pc[c] = "getPrivateKey"
     /\ awaited[c].k = "return"
     /\ privateKey' = [privateKey EXCEPT ![c] = key]
     /\ trace' = [trace EXCEPT ![c] = @ \o walk.calls]
     /\ heap' = IF rawConf[c].ref # 0 THEN [heap EXCEPT ![rawConf[c].ref] = walk.rawConf]
                ELSE heap
     /\ IF walk.ok
        THEN /\ pc' = [pc EXCEPT ![c] = "fulfilled"]
             /\ settled' = [settled EXCEPT ![c].value = walk.configJson]
        ELSE /\ pc' = [pc EXCEPT ![c] = "rejected"]
             /\ settled' = [settled EXCEPT ![c].error = walk.error]
     /\ UNCHANGED <<config, rawConf, awaited, given, direct>>

\* the resolver gives the private key: processEjson walks rawConf and returns
\* the processed document, or rejects with the error the walk threw
getPrivateKeyFulfilled(c) ==
  LET key == awaited[c]
      walk == processObjectFields(Deref(c), key.v)
  IN /\ pc[c] = "getPrivateKey"
     /\ key.k = "return"
     /\ privateKey' = [privateKey EXCEPT ![c] = key.v]
     /\ trace' = [trace EXCEPT ![c] = @ \o walk.calls]
     /\ heap' = IF rawConf[c].ref # 0 THEN [heap EXCEPT ![rawConf[c].ref] = walk.rawConf]
                ELSE heap
     /\ IF walk.ok
        THEN /\ pc' = [pc EXCEPT ![c] = "fulfilled"]
             /\ settled' = [settled EXCEPT ![c].value = walk.configJson]
        ELSE /\ pc' = [pc EXCEPT ![c] = "rejected"]
             /\ settled' = [settled EXCEPT ![c].error = walk.error]
     /\ UNCHANGED <<config, rawConf, awaited, given, direct>>

Next ==
  \E c \in Calls :
    \/ processEjson(c)
    \/ getConfigJsonRejected(c)
    \/ getConfigJsonFulfilled(c)
    \/ getPrivateKeyRejected(c)
    \/ getPrivateKeyFulfilled(c)

Spec == Init /\ [][Next]_vars

(***************************************************************************)
(* Two calls of processEjson in flight at once, their steps interleaved in *)
(* every order.  Each is given an object of the caller (the two may be     *)
(* given the same object) or a file, and a resolver of its own.            *)
(***************************************************************************)
SharedDocuments ==
  {WithPublicKey(Obj(m), 1) :
     m \in {<< <<"a", Str(ValidToken)>> >>,
            << <<"a", Str(NestedToken)>> >>,
            << <<"a", Str(ForeignToken)>> >>,
            << <<"a", Str(ValidToken)>>, <<"b", Str(MalformedToken)>> >>,
            << <<"_a", Str("u")>>, <<"a", Str(EmptyToken)>> >>,
            << <<"a", Obj(<< <<"a", Str(ValidToken)>>, <<"_a", Str("")>> >>)>> >>}}

\* what the second call is given: the first call's object, an object of its
\* own, or a file
SecondInputs ==
  {[configJson |-> 1, doc |-> Null, file |-> NoFile]}
    \cup {[configJson |-> 2, doc |-> d, file |-> NoFile] : d \in SharedDocuments}
    \cup {[configJson |-> 0, doc |-> Null, file |-> f] :
            f \in {[exists |-> FALSE, json |-> FALSE, value |-> Null],
                   [exists |-> TRUE, json |-> FALSE, value |-> Null],
                   [exists |-> TRUE, json |-> TRUE,
                    value |-> WithPublicKey(Obj(<< <<"a", Str(ValidToken)>> >>), 1)]}}

InitConc ==
  \E d \in SharedDocuments, r1 \in Resolvers, r2 \in Resolvers, in \in SecondInputs :
    /\ heap = <<d, in.doc>>
    /\ config = <<[configJson |-> 1, file |-> NoFile, getPrivateKey |-> r1],
                  [configJson |-> in.configJson, file |-> in.file, getPrivateKey |-> r2]>>
    /\ pc = [c \in Calls |-> "start"]
    /\ rawConf = [c \in Calls |-> [ref |-> 0, value |-> Undefined]]
    /\ privateKey = [c \in Calls |-> Undefined]
    /\ awaited = [c \in Calls |-> Return(Undefined)]
    /\ settled = [c \in Calls |-> Pending]
    /\ trace = [c \in Calls |-> <<>>]
    /\ given = <<d, CASE in.configJson = 1 -> d
                      [] in.configJson = 2 -> in.doc
                      [] OTHER -> in.file.value>>
    /\ direct = NoCall

SpecConc == InitConc /\ [][Next]_vars

(***************************************************************************)
(* The exported functions called by themselves.  No call of processEjson   *)
(* is in flight; direct holds the function, its arguments and the results  *)
(* of the calls made so far.                                               *)
(***************************************************************************)
Idle ==
  /\ heap = [r \in Calls |-> Null]
  /\ config = [c \in Calls |-> NoConfig]
  /\ pc = [c \in Calls |-> "unused"]
  /\ rawConf = [c \in Calls |-> [ref |-> 0, value |-> Undefined]]
  /\ privateKey = [c \in Calls |-> Undefined]
  /\ awaited = [c \in Calls |-> Return(Undefined)]
  /\ settled = [c \in Calls |-> Pending]
  /\ trace = [c \in Calls |-> <<>>]
  /\ given = [c \in Calls |-> Null]

StaysIdle == UNCHANGED <<heap, config, pc, rawConf, privateKey, awaited, settled, trace, given>>

(***************************************************************************)
(* parseEncryptedValue(value), for the texts made of a prefix, a schema    *)
(* version, a public key, a nonce, a ciphertext and a suffix, with or      *)
(* without each of the three colons between them.                          *)
(***************************************************************************)
Prefixes == {"EJ[", "EJ", "xEJ["}
Versions == {"1", "7", "", "12"}
Colons == {":", ""}
PublicKeyTexts ==
  {PublicKeyBase64(1),                           \* 44 characters of base64
   Rep("P", PubKeyChars - 1),                    \* one too few
   Rep("P", PubKeyChars + 1),                    \* one too many
   Rep("P", PubKeyChars - 1) \o "*"}             \* 44 characters, one not of base64
NonceTexts ==
  {NonceBase64(1), Rep("n", NonceChars - 1), Rep("n", NonceChars - 1) \o "-"}
CipherTexts == {"AAAA==", "x", "", "ab:cd", "a]b", "a\nb"}
Suffixes == {"]", "", "]x"}

Parts ==
  [prefix : Prefixes, version : Versions, colon1 : Colons, publicKey : PublicKeyTexts,
   colon2 : Colons, nonce : NonceTexts, colon3 : Colons, cipherText : CipherTexts,
   suffix : Suffixes]

TextOf(x) ==
  x.prefix \o x.version \o x.colon1 \o x.publicKey \o x.colon2 \o x.nonce
    \o x.colon3 \o x.cipherText \o x.suffix

InitParse ==
  /\ Idle
  /\ \E x \in Parts :
       direct = [fn |-> "parseEncryptedValue", args |-> <<TextOf(x), x>>, results |-> <<>>]

callParseEncryptedValue ==
  /\ direct.fn = "parseEncryptedValue"
  /\ Len(direct.results) = 0
  /\ direct' = [direct EXCEPT !.results = <<parseEncryptedValue(direct.args[1])>>]
  /\ StaysIdle

SpecParse == InitParse /\ [][callParseEncryptedValue]_vars

(***************************************************************************)
(* processObjectFields(rawConf, privateKey) called on a document, called   *)
(* once more on the same document, and then called on what it returned.    *)
(* args[1] is the caller's object, as the calls made so far have left it.  *)
(***************************************************************************)
PrivateKeys == {Str(PrivateKeyHex(1)), Str(PrivateKeyHex(3))}

InitTwice ==
  /\ Idle
  /\ \E d \in Documents, k \in PrivateKeys :
       direct = [fn |-> "processObjectFields", args |-> <<d, k>>, results |-> <<>>]

\* the first run, and the second run on the same document
callProcessObjectFields ==
  LET walk == processObjectFields(direct.args[1], direct.args[2])
  IN /\ direct.fn = "processObjectFields"
     /\ Len(direct.results) < 2
     /\ direct' = [direct EXCEPT !.args[1] = walk.rawConf,
                                 !.results = Append(@, walk)]
     /\ StaysIdle

\* a run on the document the first run returned
callProcessObjectFieldsOnResult ==
  LET walk == processObjectFields(direct.results[1].configJson, direct.args[2])
  IN /\ direct.fn = "processObjectFields"
     /\ Len(direct.results) = 2
     /\ direct.results[1].ok
     /\ direct' = [direct EXCEPT !.results = Append(@, walk)]
     /\ StaysIdle

NextTwice == callProcessObjectFields \/ callProcessObjectFieldsOnResult

SpecTwice == InitTwice /\ [][NextTwice]_vars

(***************************************************************************)
(* encrypt(message, nonce, theirPublicKey, mySecretKey) for a message, a   *)
(* nonce, a sender and a recipient, and then decrypt of the box it gave,   *)
(* by the recipient.  args is <<message, nonce, sender, recipient>>.       *)
(***************************************************************************)
Messages == {PlainTexts[p] : p \in PlainIds} \cup {Unpaired}

InitBox ==
  /\ Idle
  /\ \E message \in Messages, n \in NonceIds, sender \in KeyIds, recipient \in KeyIds :
       direct = [fn |-> "encrypt", args |-> <<message, n, sender, recipient>>,
                 results |-> <<>>]

callEncrypt ==
  /\ direct.fn = "encrypt"
  /\ Len(direct.results) = 0
  /\ direct' = [direct EXCEPT !.results =
                  <<encrypt(direct.args[1], NonceBase64(direct.args[2]),
                            PublicKeyBase64(direct.args[4]),
                            Str(PrivateKeyHex(direct.args[3])))>>]
  /\ StaysIdle

callDecrypt ==
  /\ direct.fn = "encrypt"
  /\ Len(direct.results) = 1
  /\ direct.results[1].k = "return"
  /\ direct' = [direct EXCEPT !.results =
                  Append(@, decrypt(direct.results[1].v, NonceBase64(direct.args[2]),
                                    PublicKeyBase64(direct.args[3]),
                                    Str(PrivateKeyHex(direct.args[4]))))]
  /\ StaysIdle

NextBox == callEncrypt \/ callDecrypt

SpecBox == InitBox /\ [][NextBox]_vars

(***************************************************************************)
(* Properties.  A path is a sequence of keys from the root of a document;  *)
(* At follows it through mappings and arrays.                              *)
(***************************************************************************)
RECURSIVE At(_, _)
At(v, path) == IF Len(path) = 0 THEN v ELSE At(Get(v, Head(path)), Tail(path))

RECURSIVE Paths(_)
Paths(v) ==
  {<<>>} \cup UNION {{<<OwnKeys(v)[i]>> \o p : p \in Paths(Get(v, OwnKeys(v)[i]))} :
                      i \in 1..Len(OwnKeys(v))}

\* the path leads through mappings only, by keys that do not begin with "_"
MappingPath(v, path) ==
  \A i \in 1..Len(path) :
    /\ At(v, SubSeq(path, 1, i - 1)).t = "object"
    /\ ~startsWith(path[i], "_")

IsToken(v) == v.t = "string" /\ startsWith(v.s, EJ)

Finished(c) == pc[c] \in {"fulfilled", "rejected"}

\* the text of the public key the document names has a key pair, whose
\* private key the resolver returned
ResolvedMatching(c) ==
  \E k \in KeyIds :
    /\ Get(given[c], "_public_key") = Str(PublicKeyHex(k))
    /\ privateKey[c] = Str(PrivateKeyHex(k))

\* the plaintext of a token under a private key, Undefined when it has none
Opened(token, key) ==
  LET parsed == parseEncryptedValue(token)
  IN IF parsed.k = "throw" THEN Undefined
     ELSE LET plain == decrypt(parsed.v.box, parsed.v.nonce, parsed.v.encrypterPublic, key)
          IN IF plain.k = "throw" THEN Undefined ELSE plain.v

\* C1: when the root names a public key and the resolver returned its private
\* key, the returned document holds, at every path of non-underscore mapping
\* keys where the given document holds a string beginning EJ[, the plaintext
\* that token opens to, and its _public_key is the given one.
C1_NestedDecryption ==
  \A c \in Calls :
    (pc[c] = "fulfilled" /\ ResolvedMatching(c)) =>
      /\ Get(settled[c].value, "_public_key") = Get(given[c], "_public_key")
      /\ \A p \in Paths(given[c]) :
           (MappingPath(given[c], p) /\ IsToken(At(given[c], p))) =>
             /\ Opened(At(given[c], p).s, privateKey[c]) # Undefined
             /\ At(settled[c].value, p) = Opened(At(given[c], p).s, privateKey[c])

\* C1 (witness): a document with a token in a nested mapping was returned
C1_Witness ==
  /\ pc[1] = "fulfilled" /\ ResolvedMatching(1)
  /\ \E p \in Paths(given[1]) :
       /\ Len(p) >= 2 /\ MappingPath(given[1], p) /\ IsToken(At(given[1], p))
       /\ At(settled[1].value, p) = Str("Hi")

\* the calls of op in the trace of call c, in order
RECURSIVE CallsOf(_, _)
CallsOf(tr, op) ==
  IF Len(tr) = 0 THEN <<>>
  ELSE (IF Head(tr).op = op THEN <<Head(tr)>> ELSE <<>>) \o CallsOf(Tail(tr), op)

Malformed(token) == parseEncryptedValue(token).k = "throw"

\* the fields the walk would reach with a token in them: the values beginning
\* EJ[ under non-underscore keys of the mappings and arrays it descends into
WalkedTokens(v) ==
  {p \in Paths(v) :
     /\ IsToken(At(v, p))
     /\ \A i \in 1..Len(p) : ~startsWith(p[i], "_")}

\* C2: a malformed token the walk parses is the last thing the call does: the
\* call rejects with that token's error, no later field is parsed or opened,
\* and no document is returned; and no returned document had a malformed
\* token in a field the walk reaches.
C2_FailFast ==
  \A c \in Calls :
    /\ \A i \in 1..Len(trace[c]) :
         (trace[c][i].op = "parseEncryptedValue" /\ Malformed(trace[c][i].arg)) =>
           /\ i = Len(trace[c])
           /\ pc[c] = "rejected"
           /\ settled[c].value = Undefined
           /\ settled[c].error = InvalidEJSON(trace[c][i].arg)
    /\ pc[c] = "fulfilled" =>
         \A p \in WalkedTokens(given[c]) : ~Malformed(At(given[c], p).s)

\* C2 (witness): a document with two encrypted fields, the first malformed,
\* was rejected
C2_Witness ==
  /\ pc[1] = "rejected"
  /\ Cardinality(WalkedTokens(given[1])) = 2
  /\ Len(CallsOf(trace[1], "parseEncryptedValue")) = 1
  /\ Malformed(CallsOf(trace[1], "parseEncryptedValue")[1].arg)

\* C3: a document without _public_key is rejected and the resolver is never
\* called.
C3_MissingPublicKey ==
  \A c \in Calls :
    (pc[c] # "unused" /\ given[c].t = "object" /\ ~HasOwn(given[c], "_public_key")) =>
      /\ Len(CallsOf(trace[c], "getPrivateKey")) = 0
      /\ pc[c] # "fulfilled"

\* the call has the document it is to decrypt
HasDocument(c) == rawConf[c].ref # 0 \/ rawConf[c].value # Undefined

\* C4: the resolver is called once for the document, with its _public_key,
\* never twice; every
\* call of parseEncryptedValue or decrypt comes after it, and after it gave
\* a key; when it fails the call rejects and no token was parsed or opened.
C4_ResolverOnce ==
  \A c \in Calls :
    LET resolves == Len(CallsOf(trace[c], "getPrivateKey"))
        tokens == Len(CallsOf(trace[c], "parseEncryptedValue"))
                    + Len(CallsOf(trace[c], "decrypt"))
    IN /\ resolves <= 1
       /\ HasDocument(c) <=> resolves = 1
       /\ resolves = 1 =>
            CallsOf(trace[c], "getPrivateKey")[1].arg = Get(given[c], "_public_key")
       /\ (Finished(c) /\ HasDocument(c)) => resolves = 1
       /\ tokens > 0 =>
            /\ trace[c][1].op = "getPrivateKey"
            /\ awaited[c].k = "return"
            /\ privateKey[c] = awaited[c].v
            /\ Finished(c)
       /\ (resolves = 1 /\ awaited[c].k = "throw") =>
            /\ tokens = 0
            /\ Finished(c) => (pc[c] = "rejected" /\ settled[c].error = awaited[c].e)

\* C4 (witness): a call that resolved the key and then parsed and opened a
\* token, and a call whose resolver failed
C4_Witness ==
  /\ pc[1] = "fulfilled"
  /\ Len(CallsOf(trace[1], "getPrivateKey")) = 1
  /\ Len(CallsOf(trace[1], "decrypt")) >= 2

C4_WitnessResolverFails ==
  /\ pc[1] = "rejected"
  /\ awaited[1].k = "throw"
  /\ Cardinality(WalkedTokens(given[1])) >= 1

\* the box of the token does not authenticate under the key: nacl.box.open
\* returns null
AuthenticationFails(token, key) ==
  LET parsed == parseEncryptedValue(token)
  IN /\ parsed.k = "return"
     /\ key.t = "string"
     /\ nacl_box_open(BufferFromBase64(parsed.v.box), BufferFromBase64(parsed.v.nonce),
                      BufferFromBase64(parsed.v.encrypterPublic), BufferFromHex(key.s))
          = Return(NaclNull)

C6_ExplicitDecryptionFailed ==
  \A c \in Calls :
    \A i \in 1..Len(trace[c]) :
      (trace[c][i].op = "decrypt" /\ AuthenticationFails(trace[c][i].arg, privateKey[c])) =>
        LET parsed == parseEncryptedValue(trace[c][i].arg).v
            result == decrypt(parsed.box, parsed.nonce, parsed.encrypterPublic, privateKey[c])
        IN /\ result.k = "return"
           /\ result.v.t # "string"

\* the paths of the mappings the walk descends into through mappings
WalkedMappings(v) ==
  {p \in Paths(v) : MappingPath(v, p) /\ At(v, p).t = "object"}

\* a string that is not empty and does not begin EJ[, like "v" and "w"
PlainString(v) == v.t = "string" /\ Len(v.s) > 0 /\ ~startsWith(v.s, EJ)

\* a scalar the walk has nothing to do with: a string that does not begin
\* EJ[, a number, a boolean or null
Scalar(v) ==
  \/ v.t \in {"number", "boolean", "null"}
  \/ v.t = "string" /\ ~startsWith(v.s, EJ)

UnderscoreKeys(m) ==
  {OwnKeys(m)[i] : i \in {j \in 1..Len(OwnKeys(m)) : startsWith(OwnKeys(m)[j], "_")}}

\* C7: in every mapping of a returned document, for a key _x with a plain
\* string v: where the given mapping has no x, x is v; where it has x with a
\* plain string w, x is still w.
C7_DefaultAlias ==
  \A c \in Calls :
    pc[c] = "fulfilled" =>
      \A p \in WalkedMappings(given[c]) :
        LET m == At(given[c], p)
            out == At(settled[c].value, p)
        IN \A k \in UnderscoreKeys(m) :
             PlainString(Get(m, k)) =>
               /\ ~HasOwn(m, slice1(k)) =>
                    (HasOwn(out, slice1(k)) /\ Get(out, slice1(k)) = Get(m, k))
               /\ (HasOwn(m, slice1(k)) /\ PlainString(Get(m, slice1(k)))) =>
                    Get(out, slice1(k)) = Get(m, slice1(k))

\* C8: in every mapping of a returned document, a key name that the given
\* mapping has beside _name, with a scalar value, keeps that value.
C8_PresenceNotTruthiness ==
  \A c \in Calls :
    pc[c] = "fulfilled" =>
      \A p \in WalkedMappings(given[c]) :
        LET m == At(given[c], p)
            out == At(settled[c].value, p)
        IN \A k \in UnderscoreKeys(m) :
             (HasOwn(m, slice1(k)) /\ Scalar(Get(m, slice1(k)))) =>
               Get(out, slice1(k)) = Get(m, slice1(k))

\* C9: in every mapping of a returned document, a key name the given mapping
\* lacks beside _name holds the given value of _name, and every key that
\* begins with an underscore holds its given value.
C9_AliasUnmodified ==
  \A c \in Calls :
    pc[c] = "fulfilled" =>
      \A p \in WalkedMappings(given[c]) :
        LET m == At(given[c], p)
            out == At(settled[c].value, p)
        IN \A k \in UnderscoreKeys(m) :
             /\ ~HasOwn(m, slice1(k)) => Get(out, slice1(k)) = Get(m, k)
             /\ Get(out, k) = Get(m, k)

\* C10: every array of the given document, under non-underscore keys of
\* mappings, is in the returned document as it was given; and a call is
\* never rejected by the walk of a document with no token in its mappings.
C10_ArraysUntouched ==
  \A c \in Calls :
    /\ pc[c] = "fulfilled" =>
         \A p \in Paths(given[c]) :
           (MappingPath(given[c], p) /\ At(given[c], p).t = "array") =>
             At(settled[c].value, p) = At(given[c], p)
    /\ (pc[c] = "rejected" /\ awaited[c].k = "return" /\ Len(trace[c]) >= 1) =>
         \E p \in WalkedTokens(given[c]) : MappingPath(given[c], p)

\* the paths of the strings of a document that do not begin EJ[
PlainStrings(v) ==
  {p \in Paths(v) : At(v, p).t = "string" /\ ~startsWith(At(v, p).s, EJ)}

\* C11: no string that does not begin EJ[ is passed to parseEncryptedValue; a
\* document with no string beginning EJ[ is not rejected by the walk; every
\* string of the given document that does not begin EJ[ is the same in the
\* returned document; and every string beginning EJ[ under non-underscore
\* mapping keys was parsed, the call having failed if it was malformed.
C11_PrefixCheck ==
  \A c \in Calls :
    /\ \A i \in 1..Len(trace[c]) :
         trace[c][i].op = "parseEncryptedValue" => startsWith(trace[c][i].arg, EJ)
    /\ (Finished(c) /\ HasDocument(c) /\ awaited[c].k = "return"
          /\ \A p \in Paths(given[c]) : ~IsToken(At(given[c], p))) =>
         pc[c] = "fulfilled"
    /\ pc[c] = "fulfilled" =>
         /\ \A p \in PlainStrings(given[c]) : At(settled[c].value, p) = At(given[c], p)
         /\ \A p \in WalkedTokens(given[c]) :
              MappingPath(given[c], p) =>
                /\ ~Malformed(At(given[c], p).s)
                /\ \E i \in 1..Len(trace[c]) :
                     trace[c][i] = Called("parseEncryptedValue", At(given[c], p).s)

\* every character of s is in class
AllIn(s, class) == \A i \in 1..Len(s) : Char(s, i) \in class

\* the text is EJ[ digit : 44 characters : 32 characters : ciphertext ], the
\* characters of the two fields of base64 and those of the ciphertext outside
\* the set excluded
OfTokenForm(text, excluded) ==
  \E n \in 1..(Len(text) - BoxFrom) :
    LET d == SubSeq(text, 4, 4)
        pub == SubSeq(text, PubFrom, PubTo)
        nonce == SubSeq(text, NonceFrom, NonceTo)
        ct == SubSeq(text, BoxFrom, BoxFrom + n - 1)
    IN /\ text = "EJ[" \o d \o ":" \o pub \o ":" \o nonce \o ":" \o ct \o "]"
       /\ d \in Digits
       /\ Len(pub) = PubKeyChars /\ AllIn(pub, Base64Class)
       /\ Len(nonce) = NonceChars /\ AllIn(nonce, Base64Class)
       /\ \A i \in 1..Len(ct) : Char(ct, i) \notin excluded

\* the parts are those of a token, put together as one
TokenParts(x, excluded) ==
  /\ x.prefix = "EJ[" /\ x.version \in Digits
  /\ x.colon1 = ":" /\ x.colon2 = ":" /\ x.colon3 = ":"
  /\ Len(x.publicKey) = PubKeyChars /\ AllIn(x.publicKey, Base64Class)
  /\ Len(x.nonce) = NonceChars /\ AllIn(x.nonce, Base64Class)
  /\ Len(x.cipherText) >= 1
  /\ \A i \in 1..Len(x.cipherText) : Char(x.cipherText, i) \notin excluded
  /\ x.suffix = "]"

\* parseEncryptedValue on the texts of the form, the ciphertext being any
\* characters but those excluded, and on the others
ParsesTheForm(excluded) ==
  (direct.fn = "parseEncryptedValue" /\ Len(direct.results) = 1) =>
    LET text == direct.args[1]
        x == direct.args[2]
        result == direct.results[1]
    IN /\ TokenParts(x, excluded) =>
            result = Return([schemaVersion |-> parseInt(x.version),
                             encrypterPublic |-> x.publicKey,
                             nonce |-> x.nonce,
                             box |-> x.cipherText])
       /\ OfTokenForm(text, excluded) => result.k = "return"
       /\ ~OfTokenForm(text, excluded) => result = Throw(InvalidEJSON(text))

\* C12 (as stated): a text EJ[ digit : 44 base64 characters : 32 base64
\* characters : ciphertext ], the ciphertext one or more characters of any
\* kind, parses to its four fields, and every other text fails with
\* 'Invalid EJSON'.
C12_ParsesAnyCipherText == ParsesTheForm({})

\* C12 (amended): a text EJ[ digit : 44 base64 characters : 32 base64
\* characters : ciphertext ], the ciphertext one or more characters none of
\* which is a line terminator, parses to its four fields, and every other
\* text fails with 'Invalid EJSON'.
C12_ParsesTheGrammar == ParsesTheForm(LineTerminators)

\* C12 (witness): a text with a colon and a bracket in its ciphertext was
\* parsed
C12_Witness ==
  /\ direct.fn = "parseEncryptedValue" /\ Len(direct.results) = 1
  /\ direct.results[1].k = "return"
  /\ direct.results[1].v.box \in {"ab:cd", "a]b"}

\* sub occurs in s
Contains(s, sub) ==
  \E i \in 1..(Len(s) - Len(sub) + 1) : SubSeq(s, i, i + Len(sub) - 1) = sub

RECURSIVE DottedPath(_)
\* the keys of a path, from the root, with dots between them
DottedPath(path) ==
  IF Len(path) = 0 THEN ""
  ELSE IF Len(path) = 1 THEN path[1]
  ELSE path[1] \o "." \o DottedPath(Tail(path))

\* the walk of call c threw: the last call recorded is the one that failed
WalkFailed(c) ==
  /\ pc[c] = "rejected"
  /\ Len(trace[c]) >= 2
  /\ trace[c][Len(trace[c])].op \in {"parseEncryptedValue", "decrypt"}

\* C13: when parsing or opening a token fails during the walk, the message of
\* the error the call rejects with holds the path of keys, from the root, of
\* a field of the given document that holds the token that failed.
C13_ErrorNamesKeyPath ==
  \A c \in Calls :
    WalkFailed(c) =>
      \E p \in WalkedTokens(given[c]) :
        /\ At(given[c], p).s = trace[c][Len(trace[c])].arg
        /\ Contains(settled[c].error.message, DottedPath(p))

\* the paths of the values of a document that are not mappings or arrays and
\* do not begin EJ[
PlainValues(v) == {p \in Paths(v) : Scalar(At(v, p))}

\* C14: a run on the document R that a successful run returned succeeds and
\* leaves every value of R that does not begin EJ[ as it is in R; and two
\* runs on the same document with the same key have the same result.
C14_Idempotent ==
  direct.fn = "processObjectFields" =>
    /\ Len(direct.results) >= 2 =>
         /\ direct.results[2].ok = direct.results[1].ok
         /\ direct.results[2].configJson = direct.results[1].configJson
         /\ direct.results[2].error = direct.results[1].error
    /\ Len(direct.results) = 3 =>
         LET R == direct.results[1].configJson
             again == direct.results[3]
         IN /\ again.ok
            /\ \A p \in PlainValues(R) : At(again.configJson, p) = At(R, p)

\* encrypt returns a box, decrypt of it by the recipient returns the message
\* when the message satisfies IsPlainText, and the box is that of the token
\* for the message
RoundTrip(IsPlainText(_)) ==
  direct.fn = "encrypt" =>
    LET message == direct.args[1]
        n == direct.args[2]
        sender == direct.args[3]
        recipient == direct.args[4]
    IN /\ Len(direct.results) >= 1 =>
            /\ direct.results[1].k = "return"
            /\ \A p \in PlainIds :
                 message = PlainTexts[p] =>
                   direct.results[1].v
                     = parseEncryptedValue(Token(p, n, sender, recipient)).v.box
       /\ (Len(direct.results) = 2 /\ IsPlainText(message)) =>
            direct.results[2] = Return(Str(message))

AnyString(message) == TRUE

\* the string is text: it holds no surrogate without its pair
WellFormed(message) == ~Contains(message, Unpaired)

Alone(c) ==
  LET conf == config[c]
      key == getPrivateKey(conf.getPrivateKey, Get(given[c], "_public_key"))
      walk == processObjectFields(given[c], key.v)
  IN IF conf.configJson = 0 /\ ~(conf.file.exists /\ conf.file.json)
     THEN [pc |-> "rejected", value |-> Undefined,
           error |-> IF conf.file.exists THEN SyntaxError ELSE ENOENT]
     ELSE IF key.k = "throw"
     THEN [pc |-> "rejected", value |-> Undefined, error |-> key.e]
     ELSE IF walk.ok
     THEN [pc |-> "fulfilled", value |-> walk.configJson, error |-> NoError]
     ELSE [pc |-> "rejected", value |-> Undefined, error |-> walk.error]

\* C16: a call that has finished, whatever the other call has done meanwhile
\* and whether or not the two were given the same object, has settled with
\* what it settles with when run alone.
C16_Independent ==
  \A c \in Calls :
    Finished(c) =>
      /\ pc[c] = Alone(c).pc
      /\ settled[c].value = Alone(c).value
      /\ settled[c].error = Alone(c).error

\* C16 (witness): two calls given the same object with different resolvers;
\* the first returned a decrypted document while the second was suspended
\* at its resolver, and the second then failed
C16_Witness ==
  /\ config[1].configJson = config[2].configJson
  /\ config[1].getPrivateKey # config[2].getPrivateKey
  /\ pc[1] = "fulfilled" /\ settled[1].value # given[1]
  /\ pc[2] = "rejected" /\ WalkFailed(2)

\* C17: the object a caller gave as configJson is, at every moment of the
\* call and after it, fulfilled or rejected, the object as it was given.
C17_CallerObjectUnchanged ==
  \A c \in Calls :
    config[c].configJson # 0 => heap[config[c].configJson] = given[c]

\* C17 (witness): a call given an object was rejected part-way through the
\* walk, after it had opened a token
C17_Witness ==
  /\ config[1].configJson # 0
  /\ WalkFailed(1)
  /\ Len(CallsOf(trace[1], "decrypt")) >= 1
  /\ Len(CallsOf(trace[1], "parseEncryptedValue")) >= 2
  /\ trace[1][Len(trace[1])].op = "parseEncryptedValue"
====
